---- MODULE Spec2Model ----
(***************************************************************************)
(* Model of src/loaders/cloudinary-loader.ts: cloudinaryLoader merges      *)
(* imageProps and cldOptions, coerces width/height, reconciles them with   *)
(* loaderOptions and hands the result to getCldImageUrl.                   *)
(*                                                                         *)
(* JavaScript values are tagged records; objects are functions from the    *)
(* keys they own to values.  A number is an integer, NaN or +/-Infinity;   *)
(* the one place a fraction arises (the multiplier of line 62 and the      *)
(* quotient of line 37) is carried as a binary64 value with its 53-bit     *)
(* significand, so that Math.floor sees what the double arithmetic gives.  *)
(* The sign of a zero is not tracked (0 and -0 are === in the source).     *)
(***************************************************************************)
EXTENDS Integers, Sequences, FiniteSets, TLC

(* ---------------------------------------------------------------------- *)
(* JavaScript values                                                       *)
(* ---------------------------------------------------------------------- *)
Undef == [t |-> "undefined", n |-> 0, s |-> <<>>]
NaN == [t |-> "nan", n |-> 0, s |-> <<>>]
Num(n) == [t |-> "num", n |-> n, s |-> <<>>]
Inf(sg) == [t |-> "inf", n |-> sg, s |-> <<>>]
\* A string value; s is the sequence of its UTF-16 code units.
Str(s) == [t |-> "str", n |-> 0, s |-> s]

IsString(v) == v.t = "str"
IsInt(v) == v.t = "num"

\* ToBoolean: undefined, NaN, 0 and "" are falsy.
Truthy(v) ==
    \/ v.t = "num" /\ v.n # 0
    \/ v.t = "inf"
    \/ v.t = "str" /\ v.s # <<>>

\* a || b
Or(a, b) == IF Truthy(a) THEN a ELSE b

\* a !== b on values that are not both objects; NaN differs from itself.
StrictNotEqual(a, b) == a.t = "nan" \/ b.t = "nan" \/ a # b

\* obj.k: the value of an own key, undefined otherwise.
Get(obj, k) == IF k \in DOMAIN obj THEN obj[k] ELSE Undef

\* {...a, ...b}
Spread(a, b) ==
    [k \in (DOMAIN a) \cup (DOMAIN b) |-> IF k \in DOMAIN b THEN b[k] ELSE a[k]]

\* obj.k = v
Assign(obj, k, v) ==
    [x \in (DOMAIN obj) \cup {k} |-> IF x = k THEN v ELSE obj[x]]

(* ---------------------------------------------------------------------- *)
(* binary64 arithmetic on the operands the loader uses                     *)
(* A finite non-zero double is sg * m * 2^(e - 52), m a 53-bit significand *)
(* held as a sequence of bits, most significant first.                     *)
(* ---------------------------------------------------------------------- *)
MantBits == 53

Abs(n) == IF n < 0 THEN -n ELSE n
Sgn(n) == IF n < 0 THEN -1 ELSE 1

FNaN == [k |-> "nan", sg |-> 1, m |-> <<>>, e |-> 0]
FZero == [k |-> "zero", sg |-> 1, m |-> <<>>, e |-> 0]
FInf(sg) == [k |-> "inf", sg |-> sg, m |-> <<>>, e |-> 0]
FFin(sg, m, e) == [k |-> "fin", sg |-> sg, m |-> m, e |-> e]

\* F applied to the value of e, e evaluated once.
Bind(e, F(_)) == CHOOSE r \in {F(x) : x \in {e}} : TRUE

RECURSIVE ToBits(_)
ToBits(n) == IF n = 0 THEN <<>> ELSE ToBits(n \div 2) \o <<n % 2>>

\* The number spelled by the first n bits of b.
RECURSIVE FromBits(_, _)
FromBits(b, n) == IF n = 0 THEN 0 ELSE 2 * FromBits(b, n - 1) + b[n]

AnyOne(b) == \E i \in 1..Len(b) : b[i] = 1

\* b + 1 on a bit string; an all-ones string grows by one bit.
IncBits(b) ==
    Bind({i \in 1..Len(b) : b[i] = 0}, LAMBDA zeros :
        IF zeros = {} THEN <<1>> \o [i \in 1..Len(b) |-> 0]
        ELSE Bind(CHOOSE i \in zeros : \A k \in zeros : k <= i, LAMBDA j :
                 [i \in 1..Len(b) |-> IF i < j THEN b[i] ELSE IF i = j THEN 1 ELSE 0]
                     \o <<>>))

\* Round-to-nearest, ties-to-even, of the significand `kept` given whether
\* the discarded part is above, at or below half a unit in the last place.
\* Returns the significand and the exponent increment.
RoundEven(kept, above, tie) ==
    IF ~(above \/ (tie /\ kept[Len(kept)] = 1)) THEN [m |-> kept, de |-> 0]
    ELSE Bind(IncBits(kept), LAMBDA inc :
             IF Len(inc) > Len(kept)
             THEN [m |-> SubSeq(inc, 1, Len(kept)), de |-> 1]
             ELSE [m |-> inc, de |-> 0])

\* The binary exponent of a/b: 2^e <= a/b < 2^(e+1), for a, b below 2^15.
Exponent(a, b) ==
    CHOOSE e \in (-15)..15 :
        IF e >= 0 THEN b * 2 ^ e <= a /\ a < b * 2 ^ (e + 1)
        ELSE b <= a * 2 ^ (-e) /\ a * 2 ^ (-e) < 2 * b

\* 2^k mod b
RECURSIVE PowMod(_, _)
PowMod(k, b) ==
    IF k = 0 THEN 1 % b
    ELSE Bind(PowMod(k \div 2, b), LAMBDA h :
             (((h * h) % b) * (IF k % 2 = 1 THEN 2 ELSE 1)) % b)

\* The dividend left before quotient bit i of a/b (b <= a < 2b) in binary
\* long division: r(1) = a, r(i+1) = 2 * (r(i) mod b).
LongRem(a, b, i) ==
    IF i = 1 THEN a ELSE 2 * (((a % b) * PowMod(i - 2, b)) % b)

\* a / b for b <= a < 2b as a double of exponent e, correctly rounded.
DivScaled(a, b, e) ==
    Bind([i \in 1..MantBits |-> IF LongRem(a, b, i) >= b THEN 1 ELSE 0] \o <<>>,
         LAMBDA q :
             Bind(LongRem(a, b, MantBits + 1), LAMBDA r :
                 Bind(RoundEven(q, r > b, r = b), LAMBDA rd :
                     [m |-> rd.m, e |-> e + rd.de])))

\* a / b for positive integers, correctly rounded.
DivPos(a, b) ==
    Bind(Exponent(a, b), LAMBDA e :
        IF e >= 0 THEN DivScaled(a, b * 2 ^ e, e)
        ELSE DivScaled(a * 2 ^ (-e), b, e))

\* n as a string of exactly w bits (n < 2^w).
RECURSIVE Pad(_, _)
Pad(n, w) == IF w = 0 THEN <<>> ELSE Pad(n \div 2, w - 1) \o <<n % 2>>

\* The bits of m[1..8j] * h + carry, m a string of 8 * j bits and h a positive
\* integer, taken eight bits at a time from the low end.
RECURSIVE MulBits(_, _, _, _)
MulBits(m, h, j, carry) ==
    IF j = 0 THEN ToBits(carry)
    ELSE Bind(FromBits(SubSeq(m, 8 * j - 7, 8 * j), 8) * h + carry, LAMBDA t :
             MulBits(m, h, j - 1, t \div 256) \o Pad(t % 256, 8))

\* Round the bit string p, worth p * 2^(e - 52 - 3), to MantBits bits.
RoundProduct(p, e) ==
    Bind(Len(p) - MantBits, LAMBDA d :
        Bind(d > 0 /\ p[MantBits + 1] = 1, LAMBDA half :
            Bind(d > 1 /\ AnyOne(SubSeq(p, MantBits + 2, Len(p))), LAMBDA low :
                Bind(RoundEven(SubSeq(p, 1, MantBits), half /\ low, half /\ ~low),
                     LAMBDA rd : [m |-> rd.m, e |-> e + d - 3 + rd.de]))))

\* h * (m * 2^(e - 52)) for a positive integer h, correctly rounded.  The
\* significand is padded with three zero bits to a whole number of bytes.
MulPos(h, m, e) ==
    Bind(MulBits(m \o <<0, 0, 0>>, h, 7, 0), LAMBDA p : RoundProduct(p, e))

\* x / y (line 62, line 37): x and y are numbers.
Divide(x, y) ==
    IF x.t \notin {"num", "inf"} \/ y.t \notin {"num", "inf"} THEN FNaN
    ELSE IF x.t = "inf" THEN
        IF y.t = "inf" THEN FNaN ELSE FInf(x.n * Sgn(y.n))
    ELSE IF y.t = "inf" THEN FZero
    ELSE IF y.n = 0 THEN (IF x.n = 0 THEN FNaN ELSE FInf(Sgn(x.n)))
    ELSE IF x.n = 0 THEN FZero
    ELSE Bind(DivPos(Abs(x.n), Abs(y.n)), LAMBDA q :
             FFin(Sgn(x.n) * Sgn(y.n), q.m, q.e))

\* x * f (line 66, line 37): x a number, f a double.
Times(x, f) ==
    IF x.t \notin {"num", "inf"} \/ f.k = "nan" THEN FNaN
    ELSE IF x.t = "inf" THEN
        IF f.k = "zero" THEN FNaN ELSE FInf(x.n * f.sg)
    ELSE IF f.k = "inf" THEN
        IF x.n = 0 THEN FNaN ELSE FInf(Sgn(x.n) * f.sg)
    ELSE IF x.n = 0 \/ f.k = "zero" THEN FZero
    ELSE Bind(MulPos(Abs(x.n), f.m, f.e), LAMBDA p :
             FFin(Sgn(x.n) * f.sg, p.m, p.e))

\* Math.floor
Floor(f) ==
    IF f.k = "nan" THEN NaN
    ELSE IF f.k = "zero" THEN Num(0)
    ELSE IF f.k = "inf" THEN Inf(f.sg)
    ELSE IF f.e < 0 THEN (IF f.sg = 1 THEN Num(0) ELSE Num(-1))
    ELSE Bind(FromBits(f.m, f.e + 1), LAMBDA whole :
             IF f.sg = 1 THEN Num(whole)
             ELSE IF AnyOne(SubSeq(f.m, f.e + 2, Len(f.m))) THEN Num(-(whole + 1))
             ELSE Num(-whole))

(* ---------------------------------------------------------------------- *)
(* parseInt(string, 10); a string is the sequence of its UTF-16 code       *)
(* units, each a number in 0..65535: "12" is <<49, 50>>                    *)
(* ---------------------------------------------------------------------- *)
\* The code units of "0" .. "9".
DigitChars == 48..57

IsDigit(c) == c \in DigitChars
DigitOf(c) == c - 48

\* The code units parseInt strips from the front of its argument
\* (StrWhiteSpaceChar).  White space: tab 9, vertical tab 11, form feed 12,
\* space 32, no-break space 160 (U+00A0), U+1680, U+2000..U+200A, U+202F,
\* U+205F, U+3000 and the byte order mark U+FEFF.  Line terminators: line
\* feed 10, carriage return 13, U+2028 and U+2029.
WhiteSpaceChars ==
    {9, 10, 11, 12, 13, 32, 160, 5760, 8232, 8233, 8239, 8287, 12288, 65279}
        \cup (8192..8202)

RECURSIVE SkipWhite(_)
SkipWhite(s) ==
    IF s # <<>> /\ Head(s) \in WhiteSpaceChars THEN SkipWhite(Tail(s)) ELSE s

RECURSIVE DigitPrefix(_)
DigitPrefix(s) ==
    IF s # <<>> /\ IsDigit(Head(s)) THEN <<Head(s)>> \o DigitPrefix(Tail(s))
    ELSE <<>>

\* The number spelled by the first n digits of ds.
RECURSIVE DigitsValue(_, _)
DigitsValue(ds, n) ==
    IF n = 0 THEN 0 ELSE 10 * DigitsValue(ds, n - 1) + DigitOf(ds[n])

\* Faulty variant: a leading sign is not consumed.
ParseIntNoSign(s) ==
    LET ds == DigitPrefix(SkipWhite(s))
    IN  IF ds = <<>> THEN NaN ELSE Num(DigitsValue(ds, Len(ds)))

ParseInt(s) ==
    LET a == SkipWhite(s)
        signed == a # <<>> /\ Head(a) \in {43, 45}
        sg == IF a # <<>> /\ Head(a) = 45 THEN -1 ELSE 1
        ds == DigitPrefix(IF signed THEN Tail(a) ELSE a)
    IN  IF ds = <<>> THEN NaN ELSE Num(sg * DigitsValue(ds, Len(ds)))

(* ---------------------------------------------------------------------- *)
(* cloudinaryLoader, statement by statement                                *)
(* ---------------------------------------------------------------------- *)

\* Faulty variant: the spread in the other order, imageProps winning a collision.
MergeOptionsReversed(ip, co) == Spread(co, ip)

\* lines 51-54: { ...imageProps, ...cldOptions }
MergeOptions(ip, co) == Spread(ip, co)

\* Faulty variant: a string that spells no number is left as it is.
CoerceKeepsBadStrings(v) ==
    IF IsString(v) /\ ParseInt(v.s) # NaN THEN ParseInt(v.s) ELSE v

\* lines 57, 58: typeof v === 'string' ? parseInt(v, 10) : v
Coerce(v) == IF IsString(v) THEN ParseInt(v.s) ELSE v

CoerceKey(opts, k) == Assign(opts, k, Coerce(Get(opts, k)))

\* line 61
ScaleCond(opts, lo) ==
    /\ Truthy(Get(lo, "width"))
    /\ Truthy(Get(opts, "width"))
    /\ StrictNotEqual(Get(lo, "width"), Get(opts, "width"))

\* Faulty variant: only an undefined width counts as missing.
FillCondUndefinedOnly(opts, lo) ==
    /\ ~ScaleCond(opts, lo)
    /\ Truthy(Get(lo, "width"))
    /\ Get(opts, "width") = Undef

\* line 68
FillCond(opts, lo) ==
    /\ ~ScaleCond(opts, lo)
    /\ Truthy(Get(lo, "width"))
    /\ ~Truthy(Get(opts, "width"))

\* Faulty variant: the ratio inverted.
ScaleHeightInverted(height, newWidth, oldWidth) ==
    Bind(Divide(oldWidth, newWidth), LAMBDA multiplier :
        Bind(Times(height, multiplier), LAMBDA product : Floor(product)))

\* lines 62, 66: Math.floor(options.height * (loaderOptions.width / options.width))
ScaleHeight(height, newWidth, oldWidth) ==
    Bind(Divide(newWidth, oldWidth), LAMBDA multiplier :
        Bind(Times(height, multiplier), LAMBDA product : Floor(product)))

\* lines 62-67
ScaleBranch(opts, lo) ==
    LET o1 == Assign(opts, "width", Get(lo, "width"))
    IN  IF Truthy(Get(o1, "height"))
        THEN Assign(o1, "height",
                 ScaleHeight(Get(o1, "height"), Get(lo, "width"), Get(opts, "width")))
        ELSE o1

\* Faulty variant: the fill-mode assignment dropped.
FillBranchDropped(opts, lo) == opts

\* line 70
FillBranch(opts, lo) == Assign(opts, "width", Get(lo, "width"))

\* Faulty variant: width over height.
applyAspectRatioSwapped(originalWidth, originalHeight, newWidth) ==
    Bind(Divide(originalWidth, originalHeight), LAMBDA ratio :
        Bind(Times(newWidth, ratio), LAMBDA product : Floor(product)))

\* lines 36-38
applyAspectRatio(originalWidth, originalHeight, newWidth) ==
    Bind(Divide(originalHeight, originalWidth), LAMBDA ratio :
        Bind(Times(newWidth, ratio), LAMBDA product : Floor(product)))

\* Faulty variant: presence tested instead of truthiness.
DeriveCondByPresence(opts, lo) ==
    Get(lo, "height") # Undef /\ Get(opts, "height") = Undef

\* Faulty variant: the test of the working height dropped.
DeriveCondHeightOnly(opts, lo) == Truthy(Get(lo, "height"))

\* line 73
DeriveCond(opts, lo) ==
    Truthy(Get(lo, "height")) /\ ~Truthy(Get(opts, "height"))

\* line 75
DeriveBranch(opts, lo) ==
    Assign(opts, "height",
        applyAspectRatio(
            Or(Get(opts, "width"), Or(Get(lo, "width"), Num(0))),
            Or(Get(opts, "height"), Num(0)),
            Or(Get(lo, "width"), Or(Get(opts, "width"), Num(0)))))

\* Faulty variant: cldOptions spread after width and height.
TransformationsSpreadLast(co, opts) ==
    Spread([width |-> Get(opts, "width"), height |-> Get(opts, "height")], co)

\* lines 81-85
Transformations(co, opts) ==
    Assign(Assign(co, "width", Get(opts, "width")), "height", Get(opts, "height"))

\* lines 79-86
FinalConfig(cc, co, opts) == Assign(cc, "transformations", Transformations(co, opts))

\* lines 61-71 and 73-76 as functions of the working options
ReconcileWidth(opts, lo) ==
    IF ScaleCond(opts, lo) THEN ScaleBranch(opts, lo)
    ELSE IF FillCond(opts, lo) THEN FillBranch(opts, lo)
    ELSE opts

ReconcileHeight(opts, lo) ==
    IF DeriveCond(opts, lo) THEN DeriveBranch(opts, lo) ELSE opts

\* The working options after lines 51-58.
Coerced(ip, co) == CoerceKey(CoerceKey(MergeOptions(ip, co), "width"), "height")

\* The two arguments of the getCldImageUrl call for given inputs (lines 44-88).
cloudinaryLoader(lo, ip, co, cc) ==
    LET opts == ReconcileHeight(ReconcileWidth(Coerced(ip, co), lo), lo)
    IN  [options |-> opts, config |-> FinalConfig(cc, co, opts)]

(* ---------------------------------------------------------------------- *)
(* State                                                                   *)
(* ---------------------------------------------------------------------- *)
VARIABLES
    loaderOptions,  \* the four destructured parameters (lines 45-48)
    imageProps,
    cldOptions,
    cldConfig,
    options,        \* const options (line 51), mutated by lines 57-75
    finalConfig,    \* const finalConfig (line 79)
    calls,          \* the getCldImageUrl calls made so far, with their arguments
    pc              \* the statement about to run

vars == <<loaderOptions, imageProps, cldOptions, cldConfig, options, finalConfig,
          calls, pc>>

inputs == <<loaderOptions, imageProps, cldOptions, cldConfig>>

NoObject == [k \in {} |-> Undef]

Merge ==
    /\ pc = "merge"
    /\ options' = MergeOptions(imageProps, cldOptions)
    /\ pc' = "coerceWidth"
    /\ UNCHANGED <<inputs, finalConfig, calls>>

CoerceWidth ==
    /\ pc = "coerceWidth"
    /\ options' = CoerceKey(options, "width")
    /\ pc' = "coerceHeight"
    /\ UNCHANGED <<inputs, finalConfig, calls>>

CoerceHeight ==
    /\ pc = "coerceHeight"
    /\ options' = CoerceKey(options, "height")
    /\ pc' = "width"
    /\ UNCHANGED <<inputs, finalConfig, calls>>

ScaleWidth ==
    /\ pc = "width"
    /\ ScaleCond(options, loaderOptions)
    /\ options' = ScaleBranch(options, loaderOptions)
    /\ pc' = "height"
    /\ UNCHANGED <<inputs, finalConfig, calls>>

FillWidth ==
    /\ pc = "width"
    /\ FillCond(options, loaderOptions)
    /\ options' = FillBranch(options, loaderOptions)
    /\ pc' = "height"
    /\ UNCHANGED <<inputs, finalConfig, calls>>

KeepWidth ==
    /\ pc = "width"
    /\ ~ScaleCond(options, loaderOptions)
    /\ ~FillCond(options, loaderOptions)
    /\ pc' = "height"
    /\ UNCHANGED <<inputs, options, finalConfig, calls>>

DeriveHeight ==
    /\ pc = "height"
    /\ DeriveCond(options, loaderOptions)
    /\ options' = DeriveBranch(options, loaderOptions)
    /\ pc' = "config"
    /\ UNCHANGED <<inputs, finalConfig, calls>>

KeepHeight ==
    /\ pc = "height"
    /\ ~DeriveCond(options, loaderOptions)
    /\ pc' = "config"
    /\ UNCHANGED <<inputs, options, finalConfig, calls>>

BuildConfig ==
    /\ pc = "config"
    /\ finalConfig' = FinalConfig(cldConfig, cldOptions, options)
    /\ pc' = "call"
    /\ UNCHANGED <<inputs, options, calls>>

CallBuilder ==
    /\ pc = "call"
    /\ calls' = Append(calls, [options |-> options, config |-> finalConfig])
    /\ pc' = "done"
    /\ UNCHANGED <<inputs, options, finalConfig>>

Next ==
    \/ Merge
    \/ CoerceWidth
    \/ CoerceHeight
    \/ ScaleWidth
    \/ FillWidth
    \/ KeepWidth
    \/ DeriveHeight
    \/ KeepHeight
    \/ BuildConfig
    \/ CallBuilder

(* ---------------------------------------------------------------------- *)
(* Inputs                                                                  *)
(* ---------------------------------------------------------------------- *)
MaxDim == 2        \* widths and heights 0..MaxDim in the general inputs
MaxStrInt == 3     \* numeric strings "-MaxStrInt".."MaxStrInt"

\* A key the caller left out.
Absent == [t |-> "absent", n |-> 0, s |-> <<>>]

\* The object owning the keys of f that were given.
Own(f) == [k \in {x \in DOMAIN f : f[x] # Absent} |-> f[k]]

Nums(S) == {Num(n) : n \in S}

\* String(n) for an integer n.
RECURSIVE DigitString(_)
DigitString(n) ==
    IF n < 10 THEN <<48 + n>>
    ELSE DigitString(n \div 10) \o <<48 + (n % 10)>>

IntString(n) == IF n < 0 THEN <<45>> \o DigitString(-n) ELSE DigitString(n)

\* Keys other than width and height, and the service configuration.
Extras ==
    { [ia |-> Absent, ca |-> Absent, crop |-> Absent, cc |-> NoObject],
      [ia |-> Str(<<97>>), ca |-> Absent, crop |-> Str(<<102>>),
       cc |-> [cloudName |-> Str(<<99>>)]],
      [ia |-> Str(<<97>>), ca |-> Str(<<98>>), crop |-> Absent,
       cc |-> [cloudName |-> Str(<<99>>),
               transformations |-> [crop |-> Str(<<111>>), width |-> Num(9)]]] }

InitOver(IW, IH, CW, CH, LW, LH) ==
    /\ \E iw \in IW, ih \in IH, cw \in CW, ch \in CH, x \in Extras :
          /\ imageProps = Own([width |-> iw, height |-> ih, alt |-> x.ia])
          /\ cldOptions = Own([width |-> cw, height |-> ch, alt |-> x.ca,
                               crop |-> x.crop])
          /\ cldConfig = x.cc
    /\ \E lw \in LW, lh \in LH :
          loaderOptions = Own([width |-> lw, height |-> lh])
    /\ options = NoObject
    /\ finalConfig = NoObject
    /\ calls = <<>>
    /\ pc = "merge"

\* General inputs: every kind of value in every position.  The strings are
\* U+00E9 then "1" (no white space, no digit first), line feed then "-x",
\* tab and U+2000 then "2", and "1px".
Init ==
    InitOver(
        {Absent, NaN, Inf(1), Str(<<233, 49>>)} \cup Nums(0..MaxDim),
        {Absent, NaN, Str(<<10, 45, 120>>)} \cup Nums(0..MaxDim),
        {Absent, Num(1), Str(<<9, 8192, 50>>)},
        {Absent, Str(<<49, 112, 120>>)},
        {Absent, NaN, Inf(1), Num(-1)} \cup Nums(0..MaxDim),
        {Absent} \cup Nums(0..MaxDim))

Spec == Init /\ [][Next]_vars

\* Numeric sizes as a rendering host passes them.
InitScale ==
    InitOver(
        {Absent, NaN, Inf(1), Num(3), Num(800), Num(-13)} \cup Nums(0..MaxDim),
        {Absent, NaN, Num(13), Num(27), Num(600)} \cup Nums(0..MaxDim),
        {Absent, Num(100)},
        {Absent},
        {Absent, Inf(1), Num(13), Num(400), Num(320), Num(-15)} \cup Nums(0..MaxDim),
        {Absent, Num(450)})

SpecScale == InitScale /\ [][Next]_vars

\* Sizes given as strings: "12", the decimal strings of the small integers,
\* "2", "-1" and "10".
StrInts == {Str(IntString(n)) : n \in (-MaxStrInt)..MaxStrInt}

InitString ==
    InitOver(
        {Absent, Str(<<49, 50>>)} \cup StrInts,
        {Absent, Num(2)} \cup StrInts,
        {Absent, Str(<<50>>), Str(<<45, 49>>)},
        {Absent, Str(<<49, 48>>)},
        {Absent, Num(0), Num(2), Num(5)},
        {Absent, Num(3)})

SpecString == InitString /\ [][Next]_vars

Done == pc = "done"

\* The arguments of the one getCldImageUrl call.
Call == calls[1]

(* ---------------------------------------------------------------------- *)
(* Properties                                                              *)
(* ---------------------------------------------------------------------- *)
Has(obj, k) == k \in DOMAIN obj

\* floor(a / b) for integers, b # 0.
FloorDiv(a, b) == IF b < 0 THEN (-a) \div (-b) ELSE a \div b

\* b / a is a dyadic fraction: b * 2^j is a multiple of a for some j.
RECURSIVE Dyadic(_, _)
Dyadic(b, a) ==
    \/ Abs(b) % Abs(a) = 0
    \/ (Abs(a) % 2 = 0 /\ Dyadic(b, Abs(a) \div 2))

\* floor(h * w2 / w) as the claim writes it, in real arithmetic extended by
\* the quotients of division by zero.
ClaimedScale(h, w2, w) ==
    IF w # 0 THEN Num(FloorDiv(h * w2, w))
    ELSE IF h * w2 = 0 THEN NaN
    ELSE Inf(Sgn(h * w2))

\* The call C1 is about: integer imageProps.width and height, an integer
\* loaderOptions.width that differs, no size in cldOptions.
C1_Case ==
    /\ ~Has(cldOptions, "width") /\ ~Has(cldOptions, "height")
    /\ IsInt(Get(imageProps, "width"))
    /\ IsInt(Get(imageProps, "height"))
    /\ IsInt(Get(loaderOptions, "width"))
    /\ Get(loaderOptions, "width") # Get(imageProps, "width")

\* C1 as stated: in every such call, zero included, the builder receives
\* width W2 and height floor(H * W2 / W).
C1_AsClaimed ==
    (Done /\ C1_Case) =>
        /\ Call.options.width = loaderOptions.width
        /\ Call.options.height =
               ClaimedScale(imageProps.height.n, loaderOptions.width.n,
                            imageProps.width.n)

\* C1 (amended): with W and W2 non-zero (and |H * W2| < 2^52) the builder
\* receives width W2 and height Math.floor(H * (W2 / W)) in double arithmetic,
\* which is floor(H * W2 / W) whenever that quotient is not an integer or W2 / W is a
\* dyadic fraction, and floor(H * W2 / W) or one less otherwise (116, not 117,
\* for W = 3, W2 = 13, H = 27).  With W = 0 the width becomes W2 and the
\* height stays H; with W2 = 0 width and height stay W and H.
C1_ScaledByLoaderWidth ==
    (Done /\ C1_Case) =>
        LET W == imageProps.width.n
            W2 == loaderOptions.width.n
            H == imageProps.height.n
            k == FloorDiv(H * W2, W)
            out == Call.options
        IN  IF W # 0 /\ W2 # 0 THEN
                /\ out.width = Num(W2)
                /\ IsInt(out.height)
                /\ out.height.n \in {k - 1, k}
                /\ ((H * W2) % Abs(W) # 0 \/ Dyadic(W2, W)) => out.height.n = k
                /\ (W = 3 /\ W2 = 13 /\ H = 27) => out.height.n = 116
            ELSE IF W2 # 0 THEN out.width = Num(W2) /\ out.height = Num(H)
            ELSE out.width = Num(W) /\ out.height = Num(H)

C1_Witness ==
    /\ Done /\ C1_Case
    /\ imageProps.width = Num(800) /\ imageProps.height = Num(600)
    /\ loaderOptions.width = Num(400)
    /\ Call.options.width = Num(400) /\ Call.options.height = Num(300)

\* C2: the configuration handed to the builder keeps every key of cldConfig
\* but 'transformations', and its 'transformations' is cldOptions with width
\* and height replaced by the final width and height of the options argument.
C2_FinalConfig ==
    Done =>
        LET cfg == Call.config
            tr == cfg.transformations
        IN  /\ DOMAIN cfg = DOMAIN cldConfig \cup {"transformations"}
            /\ \A k \in DOMAIN cldConfig \ {"transformations"} : cfg[k] = cldConfig[k]
            /\ DOMAIN tr = DOMAIN cldOptions \cup {"width", "height"}
            /\ \A k \in DOMAIN cldOptions \ {"width", "height"} : tr[k] = cldOptions[k]
            /\ tr.width = Call.options.width
            /\ tr.height = Call.options.height

C2_Witness ==
    /\ Done
    /\ Has(cldConfig, "transformations") /\ Has(cldConfig, "cloudName")
    /\ Has(cldOptions, "width") /\ Has(cldOptions, "alt")
    /\ Call.config.transformations.width # cldOptions.width
    /\ Call.config.transformations # cldConfig.transformations

\* The working height after lines 51-58, from the inputs.
CoercedHeight ==
    Coerce(IF Has(cldOptions, "height") THEN cldOptions.height
           ELSE Get(imageProps, "height"))

CoercedWidth ==
    Coerce(IF Has(cldOptions, "width") THEN cldOptions.width
           ELSE Get(imageProps, "width"))

AfterWidthStep == pc \in {"height", "config", "call", "done"}

\* C3 as stated: whenever imageProps has no width and loaderOptions.width
\* is given, the width becomes exactly loaderOptions.width and the width
\* step leaves the height as coercion left it.
C3_AsClaimed ==
    (~Has(imageProps, "width") /\ Has(loaderOptions, "width")) =>
        /\ AfterWidthStep => Get(options, "width") = loaderOptions.width
        /\ pc = "height" => Get(options, "height") = CoercedHeight

\* C3 (amended): whenever neither imageProps nor cldOptions has a width and
\* loaderOptions.width is a non-zero number, the width becomes exactly
\* loaderOptions.width and the width step leaves the height as coercion left
\* it; with imageProps = {} and loaderOptions = {width: 320} the builder
\* receives width 320 and an unset height.
C3_FillWidth ==
    /\ ( /\ ~Has(imageProps, "width") /\ ~Has(cldOptions, "width")
         /\ Truthy(Get(loaderOptions, "width")) ) =>
           /\ AfterWidthStep => Get(options, "width") = loaderOptions.width
           /\ pc = "height" => Get(options, "height") = CoercedHeight
           /\ Done => Call.options.width = loaderOptions.width
    /\ ( /\ Done /\ DOMAIN imageProps = {} /\ DOMAIN cldOptions = {}
         /\ DOMAIN loaderOptions = {"width"} /\ loaderOptions.width = Num(320) ) =>
           Call.options.width = Num(320) /\ Call.options.height = Undef

C3_Witness ==
    /\ Done /\ DOMAIN imageProps = {} /\ DOMAIN cldOptions = {}
    /\ DOMAIN loaderOptions = {"width"} /\ loaderOptions.width = Num(320)
    /\ Call.options.width = Num(320) /\ Call.options.height = Undef

\* v ?? d: d when v is undefined.
Nullish(v, d) == IF v = Undef THEN d ELSE v

FiniteNonZero(v) == IsInt(v) /\ v.n # 0

\* C4 as stated: the height step derives the height exactly when
\* loaderOptions.height is present and the working height is absent, from
\* operands chosen by presence; otherwise it leaves the height untouched.
C4_AsClaimed ==
    [][pc = "height" =>
        LET wW == Get(options, "width")
            wH == Get(options, "height")
            lW == Get(loaderOptions, "width")
            lH == Get(loaderOptions, "height")
            origW == Nullish(wW, Nullish(lW, Num(0)))
            origH == Nullish(wH, Num(0))
            newW == Nullish(lW, Nullish(wW, Num(0)))
        IN  IF lH # Undef /\ wH = Undef
            THEN Get(options', "height") = Floor(Times(newW, Divide(origH, origW)))
            ELSE Get(options', "height") = wH
    ]_vars

\* C4 (amended): the height step derives the height exactly when
\* loaderOptions.height is a non-zero number and the working height is
\* absent, 0 or NaN; the derived height is floor((origH / origW) * newW) with
\* origW the working width if that is a non-zero number, else
\* loaderOptions.width if that is a non-zero number, else 0, origH = 0, and
\* newW loaderOptions.width if that is a non-zero number, else the working
\* width if that is a non-zero number, else 0.  In every other case
\* (loaderOptions.height absent, 0 or NaN, or a non-zero working height) the
\* step leaves the height untouched.
C4_HeightDerivation ==
    [][pc = "height" =>
        LET wW == Get(options, "width")
            wH == Get(options, "height")
            lW == Get(loaderOptions, "width")
            lH == Get(loaderOptions, "height")
            origW == IF Truthy(wW) THEN wW ELSE IF Truthy(lW) THEN lW ELSE Num(0)
            newW == IF Truthy(lW) THEN lW ELSE IF Truthy(wW) THEN wW ELSE Num(0)
        IN  IF Truthy(lH) /\ wH \in {Undef, Num(0), NaN}
            THEN Get(options', "height") = Floor(Times(newW, Divide(Num(0), origW)))
            ELSE Get(options', "height") = wH
    ]_vars

C4_Witness ==
    /\ pc = "config"
    /\ Truthy(Get(loaderOptions, "height"))
    /\ CoercedHeight = Num(0)
    /\ ~Truthy(Get(loaderOptions, "width")) /\ ~Truthy(CoercedWidth)
    /\ Get(options, "height") = NaN

\* The call C5 is about.
C5_Case ==
    /\ DOMAIN imageProps = {"height"} /\ imageProps.height = Num(600)
    /\ DOMAIN loaderOptions = {"width", "height"}
    /\ loaderOptions.width = Num(0) /\ loaderOptions.height = Num(450)
    /\ DOMAIN cldOptions = {} /\ DOMAIN cldConfig = {}

\* C5 as stated: for imageProps = {height: 600} and loaderOptions =
\* {width: 0, height: 450} the height handed to the builder is NaN.
C5_AsClaimed == (Done /\ C5_Case) => Call.options.height = NaN

\* C5 (amended): for imageProps = {height: 600} and loaderOptions =
\* {width: 0, height: 450} the working height 600 is present, so the height
\* step does not fire: the builder receives height 600 and an unset width.
\* The call raises nothing and reaches the builder exactly once.  (With
\* imageProps = {} instead, the original width is 0 and the height is NaN.)
C5_HeightKept ==
    /\ C5_Case =>
         /\ Done => ( /\ Call.options.height = Num(600)
                      /\ Call.options.width = Undef
                      /\ Call.config.transformations.height = Num(600) )
         /\ pc = "height" => ~ENABLED DeriveHeight
         /\ Done \/ ENABLED Next
         /\ Len(calls) = IF Done THEN 1 ELSE 0
    /\ ( /\ Done /\ DOMAIN imageProps = {} /\ DOMAIN cldOptions = {}
         /\ DOMAIN loaderOptions = {"width", "height"}
         /\ loaderOptions.width = Num(0) /\ loaderOptions.height = Num(450) ) =>
           Call.options.height = NaN

C5_Witness == Done /\ C5_Case /\ Call.options.height = Num(600)

\* The object with a numeric string at key k replaced by the number it spells.
Twin(obj, k) ==
    IF Has(obj, k) /\ IsString(obj[k])
       /\ \E n \in (-20)..20 : obj[k].s = IntString(n)
    THEN Assign(obj, k, Num(CHOOSE n \in (-20)..20 : obj[k].s = IntString(n)))
    ELSE obj

\* C6: a width or height given as the base-10 string of an integer n hands
\* the builder the same options and configuration as the number n given in
\* its place.
C6_NumericStrings ==
    Done =>
        \A k \in {"width", "height"} :
            /\ Call = cloudinaryLoader(loaderOptions, Twin(imageProps, k),
                                       cldOptions, cldConfig)
            /\ Call = cloudinaryLoader(loaderOptions, imageProps,
                                       Twin(cldOptions, k), cldConfig)

C6_Witness ==
    /\ Done
    /\ Get(imageProps, "width") = Str(<<45, 50>>)
    /\ ~Has(cldOptions, "width")
    /\ Twin(imageProps, "width") # imageProps
    /\ Get(loaderOptions, "width") = Num(5)
    /\ Call.options.width = Num(5)
    /\ Get(imageProps, "height") = Str(<<51>>) /\ ~Has(cldOptions, "height")
    /\ Call.options.height = Num(-8)

\* C7: the working options hold every key of imageProps and cldOptions,
\* cldOptions winning a collision, for width and height too; every other key
\* reaches the builder's options argument with the merged value.
C7_Merge ==
    /\ pc # "merge" => (DOMAIN imageProps \cup DOMAIN cldOptions) \subseteq DOMAIN options
    /\ pc = "coerceWidth" =>
         /\ \A k \in DOMAIN cldOptions : options[k] = cldOptions[k]
         /\ \A k \in DOMAIN imageProps \ DOMAIN cldOptions : options[k] = imageProps[k]
    /\ (pc = "width" /\ Has(cldOptions, "width")) =>
         options.width = Coerce(cldOptions.width)
    /\ (pc = "width" /\ Has(cldOptions, "height")) =>
         options.height = Coerce(cldOptions.height)
    /\ Done =>
         /\ DOMAIN Call.options =
                DOMAIN imageProps \cup DOMAIN cldOptions \cup {"width", "height"}
         /\ \A k \in DOMAIN cldOptions \ {"width", "height"} :
                Call.options[k] = cldOptions[k]
         /\ \A k \in (DOMAIN imageProps \ DOMAIN cldOptions) \ {"width", "height"} :
                Call.options[k] = imageProps[k]

C7_Witness ==
    /\ Done
    /\ Has(imageProps, "alt") /\ Has(cldOptions, "alt")
    /\ imageProps.alt # cldOptions.alt /\ Call.options.alt = cldOptions.alt
    /\ Has(imageProps, "width") /\ Has(cldOptions, "width")
    /\ imageProps.width = Num(2) /\ cldOptions.width = Num(1)
    /\ ~Has(loaderOptions, "width") /\ Call.options.width = Num(1)

\* The raw working width and height after the merge of lines 51-54.
MergedWidth ==
    IF Has(cldOptions, "width") THEN cldOptions.width ELSE Get(imageProps, "width")

MergedHeight ==
    IF Has(cldOptions, "height") THEN cldOptions.height ELSE Get(imageProps, "height")

NonNumericString(v) ==
    /\ IsString(v)
    /\ LET a == SkipWhite(v.s)
           b == IF a # <<>> /\ Head(a) \in {43, 45} THEN Tail(a) ELSE a
       IN  b = <<>> \/ ~IsDigit(Head(b))

\* The call is made exactly once, at the end, and no statement blocks.
ReachesBuilder ==
    /\ Done \/ ENABLED Next
    /\ Len(calls) = IF Done THEN 1 ELSE 0

\* C8 as stated: the loader raises nothing and reaches the builder, and a
\* non-numeric width or height string reaches the builder as NaN in options
\* and transformations, whatever loaderOptions contains.
C8_AsClaimed ==
    /\ ReachesBuilder
    /\ (Done /\ NonNumericString(MergedWidth)) =>
         Call.options.width = NaN /\ Call.config.transformations.width = NaN
    /\ (Done /\ NonNumericString(MergedHeight)) =>
         Call.options.height = NaN /\ Call.config.transformations.height = NaN

\* C8 (amended): the loader raises nothing and reaches the builder; a
\* non-numeric width string reaches the builder as NaN when
\* loaderOptions.width is absent, 0 or NaN and is replaced by
\* loaderOptions.width otherwise; a non-numeric height string reaches the
\* builder as NaN when loaderOptions.height is absent, 0 or NaN and is
\* replaced by the derived height otherwise (0 when the final width is a
\* finite non-zero number, NaN when it is not).  Leading white space does
\* not make a string non-numeric: tab, U+2000, "2" reaches the builder as 2 when
\* loaderOptions.width is absent.
C8_NaNPropagation ==
    /\ ReachesBuilder
    /\ ( /\ Done /\ MergedWidth = Str(<<9, 8192, 50>>)
         /\ ~Has(loaderOptions, "width") ) =>
           /\ ~NonNumericString(MergedWidth)
           /\ Call.options.width = Num(2)
           /\ Call.config.transformations.width = Num(2)
    /\ (Done /\ NonNumericString(MergedWidth)) =>
         LET lW == Get(loaderOptions, "width")
         IN  /\ Call.options.width = IF lW \in {Undef, Num(0), NaN} THEN NaN ELSE lW
             /\ Call.config.transformations.width = Call.options.width
    /\ (Done /\ NonNumericString(MergedHeight)) =>
         LET lH == Get(loaderOptions, "height")
         IN  /\ Call.options.height =
                    IF lH \in {Undef, Num(0), NaN} THEN NaN
                    ELSE IF FiniteNonZero(Call.options.width) THEN Num(0)
                    ELSE NaN
             /\ Call.config.transformations.height = Call.options.height

C8_Witness ==
    /\ Done
    /\ NonNumericString(MergedWidth) /\ NonNumericString(MergedHeight)
    /\ MergedWidth = Str(<<233, 49>>)
    /\ MergedHeight = Str(<<10, 45, 120>>)
    /\ ~Has(loaderOptions, "width") /\ ~Has(loaderOptions, "height")
    /\ Call.options.width = NaN /\ Call.options.height = NaN

\* C9: after width reconciliation the width is loaderOptions.width whenever
\* that is a non-zero number; when loaderOptions.width is absent or 0 the
\* width is the coerced working width and the height has not been scaled.
C9_WidthReconciled ==
    AfterWidthStep =>
        LET lW == Get(loaderOptions, "width")
        IN  /\ (IsInt(lW) /\ lW.n # 0) \/ lW.t = "inf" =>
                 Get(options, "width") = lW
            /\ lW \in {Undef, Num(0)} =>
                 /\ Get(options, "width") = CoercedWidth
                 /\ pc = "height" => Get(options, "height") = CoercedHeight

C9_Witness ==
    /\ pc = "height"
    /\ Get(loaderOptions, "width") = Num(2)
    /\ CoercedWidth = NaN
    /\ Get(options, "width") = Num(2)

\* loaderOptions.height is a non-zero number and the working height is absent,
\* 0 or NaN.
HeightStepFires ==
    /\ Truthy(Get(loaderOptions, "height"))
    /\ Get(options, "height") \in {Undef, Num(0), NaN}

\* C10 as stated: when the height step fires the derived height is 0 if the
\* working width or loaderOptions.width is a non-zero number and NaN if both
\* are absent or 0; it is never positive and never loaderOptions.height.
C10_AsClaimed ==
    [][(pc = "height" /\ HeightStepFires) =>
        LET wW == Get(options, "width")
            lW == Get(loaderOptions, "width")
            h == Get(options', "height")
            number(v) == (IsInt(v) /\ v.n # 0) \/ v.t = "inf"
        IN  /\ (number(wW) \/ number(lW)) => h = Num(0)
            /\ (wW \in {Undef, Num(0)} /\ lW \in {Undef, Num(0)}) => h = NaN
            /\ ~(IsInt(h) /\ h.n > 0) /\ h.t # "inf"
            /\ h # Get(loaderOptions, "height")
    ]_vars

\* C10 (amended): when the height step fires the derived height is 0 if the
\* working width or loaderOptions.width is a finite non-zero number and NaN
\* if both are absent, 0, NaN or infinite; it is never positive and never
\* loaderOptions.height.
C10_DerivedHeight ==
    [][(pc = "height" /\ HeightStepFires) =>
        LET wW == Get(options, "width")
            lW == Get(loaderOptions, "width")
            h == Get(options', "height")
        IN  /\ (FiniteNonZero(wW) \/ FiniteNonZero(lW)) => h = Num(0)
            /\ (~FiniteNonZero(wW) /\ ~FiniteNonZero(lW)) => h = NaN
            /\ ~(IsInt(h) /\ h.n > 0) /\ h.t # "inf"
            /\ h # Get(loaderOptions, "height")
    ]_vars

C10_Witness ==
    /\ pc = "config"
    /\ Get(loaderOptions, "height") = Num(2)
    /\ CoercedHeight = Undef
    /\ Get(options, "width") = Num(1)
    /\ Get(options, "height") = Num(0)

====
